---- MODULE Spec2Model ----
(***************************************************************************)
(* Model of src/components/validation/resources/mod.rs: the codec of an    *)
(* external resource (ResourceCodec), the derivation of its inverse        *)
(* encoder (into_encoder), and the single-use ExternalResource that is     *)
(* spawned as the input or output side of a component under validation.    *)
(*                                                                         *)
(* One behaviour is one validation run of a test driver: it holds one      *)
(* ResourceCodec, may ask it for encoders (a borrow), may ask it for its   *)
(* allowed event data types (a move), or may move it into an               *)
(* ExternalResource and spawn that resource once.  A panic ends the run.   *)
(***************************************************************************)
EXTENDS Integers, Sequences, FiniteSets, TLC

VARIABLES
    sources_syslog, \* cargo feature "sources-syslog" of the build (mod.rs:136)
    codec,          \* the ResourceCodec value the driver constructed
    codecState,     \* who owns it: "owned" (driver), "consumed", "in_resource"
    encoderCalls,   \* number of into_encoder calls made on the codec
    encoder,        \* Option: the Encoder returned by the last into_encoder
    allowed,        \* Option: the DataType returned by allowed_event_data_types
    resource,       \* Option: the ExternalResource built by new
    resourceState,  \* "none", "live" (owned by the driver), "moved" (spawned)
    newArgs,        \* Option: the arguments new was called with
    spawnArgs,      \* sequence of the spawn_as_* calls made by the driver
    httpCalls,      \* sequence of the calls received by the HttpConfig implementation
    panicked        \* Option: the message of the panic that aborted the run

vars == <<sources_syslog, codec, codecState, encoderCalls, encoder, allowed,
          resource, resourceState, newArgs, spawnArgs, httpCalls, panicked>>

None == [some |-> FALSE]
Some(x) == [some |-> TRUE, value |-> x]

(***************************************************************************)
(* Bounds of the model.                                                    *)
(***************************************************************************)
\* into_encoder takes &self, so it can be called any number of times.
MaxEncoderCalls == 2
\* Cap on the calls the HTTP implementation can receive in one run.
MaxSpawnCalls == 2
\* Delimiter bytes range over 44 .. 44 + DelimSpan.
DelimSpan == 1
\* Option<usize> framing parameters range over None, Some(1) .. Some(MaxLength).
MaxLength == 1

\* u8 delimiters: b',' (44) and the DelimSpan bytes after it.
Delimiters == 44 .. (44 + DelimSpan)
MaxLengths == {None} \cup {Some(n) : n \in 1..MaxLength}

(***************************************************************************)
(* Types of the codecs library, as far as mod.rs looks into them.          *)
(***************************************************************************)
\* vector_core::config::DataType values a codec can report.
DataTypes == {{"Log"}, {"Log", "Metric", "Trace"}}

\* encoding::SerializerConfig.  `buildable` is whether build() returns Ok;
\* `input_type` is what input_type() returns for this config.
SerializerFormats == {"Gelf", "Json", "Logfmt", "Native", "NativeJson", "RawMessage", "Text"}
SerializerConfig == [format : SerializerFormats, buildable : BOOLEAN, input_type : DataTypes]

\* encoding::FramingConfig.
EncodingFramingConfig ==
    {[method |-> "Bytes"], [method |-> "LengthDelimited"], [method |-> "NewlineDelimited"]}
    \cup {[method |-> "CharacterDelimited", delimiter |-> d] : d \in Delimiters}

\* decoding::FramingConfig.
DecodingFramingConfig ==
    {[method |-> "Bytes"], [method |-> "LengthDelimited"]}
    \cup {[method |-> "CharacterDelimited", delimiter |-> d, max_length |-> m] :
            d \in Delimiters, m \in MaxLengths}
    \cup {[method |-> "NewlineDelimited", max_length |-> m] : m \in MaxLengths}
    \cup {[method |-> "OctetCounting", max_length |-> m] : m \in MaxLengths}

\* The framings a deserializer can name as its default (options at their defaults).
DefaultStreamFramings ==
    {[method |-> "Bytes"], [method |-> "LengthDelimited"],
     [method |-> "NewlineDelimited", max_length |-> None],
     [method |-> "OctetCounting", max_length |-> None]}

\* decoding::DeserializerConfig.  The Syslog variant exists only with the feature.
DeserializerFormats(syslog) ==
    {"Bytes", "Json", "Native", "NativeJson", "Gelf"} \cup (IF syslog THEN {"Syslog"} ELSE {})
DeserializerConfig(syslog) ==
    [format : DeserializerFormats(syslog), stream_framing : DefaultStreamFramings,
     output_type : DataTypes]

\* SerializerConfig::input_type, DeserializerConfig::output_type and
\* DeserializerConfig::default_stream_framing are library methods: each is a
\* function of the config, left unconstrained by carrying its value in the config.
input_type(config) == config.input_type
output_type(config) == config.output_type
default_stream_framing(config) == config.stream_framing

\* SerializerConfig::build: Ok(Serializer of the config's format) or Err.
SerializerBuild(config) ==
    IF config.buildable
    THEN [ok |-> TRUE, serializer |-> [serializer |-> config.format]]
    ELSE [ok |-> FALSE]

\* A unit variant of SerializerConfig, as written in the lookup table.
UnitSerializerConfig(format) ==
    [format |-> format, buildable |-> TRUE]

\* encoding::FramingConfig::build: the Framer of the same method.
FramingBuild(config) ==
    IF config.method = "CharacterDelimited"
    THEN [framer |-> "CharacterDelimitedEncoder", delimiter |-> config.delimiter]
    ELSE [framer |-> CASE config.method = "Bytes" -> "BytesEncoder"
                       [] config.method = "LengthDelimited" -> "LengthDelimitedEncoder"
                       [] config.method = "NewlineDelimited" -> "NewlineDelimitedEncoder"]

\* Framer::Bytes(BytesEncoder::new())
BytesFramer == [framer |-> "BytesEncoder"]

(***************************************************************************)
(* ResourceCodec and its conversions (mod.rs:27-54, 108-124).              *)
(***************************************************************************)
EncodingConfig == [serializer : SerializerConfig]
EncodingConfigWithFraming ==
    [framing : {None} \cup {Some(f) : f \in EncodingFramingConfig}, serializer : SerializerConfig]
DecodingConfig(syslog) == [deserializer : DeserializerConfig(syslog)]

FromEncodingConfig(config) == [variant |-> "Encoding", encoding |-> config]
FromEncodingConfigWithFraming(config) == [variant |-> "EncodingWithFraming", encoding |-> config]
FromDecodingConfig(config) == [variant |-> "Decoding", decoding |-> config]
DecodingWithFraming(config, framing) ==
    [variant |-> "DecodingWithFraming", decoding |-> config, framing |-> framing]

ResourceCodec(syslog) ==
    {FromEncodingConfig(c) : c \in EncodingConfig}
    \cup {FromEncodingConfigWithFraming(c) : c \in EncodingConfigWithFraming}
    \cup {FromDecodingConfig(c) : c \in DecodingConfig(syslog)}
    \cup {DecodingWithFraming(c, f) : c \in DecodingConfig(syslog), f \in DecodingFramingConfig}

IsEncodeOnly(c) == c.variant \in {"Encoding", "EncodingWithFraming"}
IsDecodeOnly(c) == c.variant \in {"Decoding", "DecodingWithFraming"}

(***************************************************************************)
(* Panic messages, as the words of the message text.                       *)
(***************************************************************************)
\* todo!() panics with "not yet implemented".
TodoMessage == <<"not", "yet", "implemented">>
\* .expect("should not fail to build serializer")
ExpectMessage80 == <<"should", "not", "fail", "to", "build", "serializer">>
\* .expect("building serializer should never fail")
ExpectMessage91 == <<"building", "serializer", "should", "never", "fail">>

Ok(v) == [ok |-> TRUE, value |-> v]
Panic(msg) == [ok |-> FALSE, panic |-> msg]

\* Result::expect(msg) on the result of SerializerConfig::build.
Expect(built, msg) == IF built.ok THEN Ok(built.serializer) ELSE Panic(msg)

(***************************************************************************)
(* ResourceCodec::allowed_event_data_types (mod.rs:62-70).                 *)
(***************************************************************************)
allowed_event_data_types_const(self) ==
    CASE self.variant = "Encoding" -> input_type(self.encoding.serializer)
      [] self.variant = "EncodingWithFraming" -> input_type(self.encoding.serializer)
      [] self.variant = "Decoding" -> output_type(self.decoding.deserializer)
      [] self.variant = "DecodingWithFraming" -> {"Log"}

allowed_event_data_types(self) ==
    CASE self.variant = "Encoding" -> input_type(self.encoding.serializer)
      [] self.variant = "EncodingWithFraming" -> input_type(self.encoding.serializer)
      [] self.variant \in {"Decoding", "DecodingWithFraming"} ->
            output_type(self.decoding.deserializer)

(***************************************************************************)
(* deserializer_config_to_serializer (mod.rs:126-146).                     *)
(***************************************************************************)
serializer_config_syslog_as_json(config) ==
    CASE config.format = "Bytes" -> UnitSerializerConfig("Text")
      [] config.format = "Json" -> UnitSerializerConfig("Json")
      [] config.format = "Syslog" -> UnitSerializerConfig("Json")
      [] config.format = "Native" -> UnitSerializerConfig("Native")
      [] config.format = "NativeJson" -> UnitSerializerConfig("NativeJson")
      [] config.format = "Gelf" -> UnitSerializerConfig("Gelf")

\* The match of lines 127-141: an exhaustive match, without a default arm.
serializer_config(config) ==
    CASE config.format = "Bytes" -> UnitSerializerConfig("Text")
      [] config.format = "Json" -> UnitSerializerConfig("Json")
      [] config.format = "Syslog" -> UnitSerializerConfig("Logfmt")
      [] config.format = "Native" -> UnitSerializerConfig("Native")
      [] config.format = "NativeJson" -> UnitSerializerConfig("NativeJson")
      [] config.format = "Gelf" -> UnitSerializerConfig("Gelf")

deserializer_config_to_serializer(config) ==
    Expect(SerializerBuild(serializer_config(config)), ExpectMessage91)

(***************************************************************************)
(* decoder_framing_to_encoding_framer (mod.rs:148-168).                    *)
(***************************************************************************)
framing_config_default_delimiter(framing) ==
    CASE framing.method = "Bytes" -> Ok([method |-> "Bytes"])
      [] framing.method = "CharacterDelimited" ->
            Ok([method |-> "CharacterDelimited", delimiter |-> 44])
      [] framing.method = "LengthDelimited" -> Ok([method |-> "LengthDelimited"])
      [] framing.method = "NewlineDelimited" -> Ok([method |-> "NewlineDelimited"])
      [] framing.method = "OctetCounting" -> Panic(TodoMessage)

framing_config_octet_fallback(framing) ==
    CASE framing.method = "Bytes" -> Ok([method |-> "Bytes"])
      [] framing.method = "CharacterDelimited" ->
            Ok([method |-> "CharacterDelimited", delimiter |-> framing.delimiter])
      [] framing.method = "LengthDelimited" -> Ok([method |-> "LengthDelimited"])
      [] framing.method = "NewlineDelimited" -> Ok([method |-> "NewlineDelimited"])
      [] framing.method = "OctetCounting" -> Ok([method |-> "NewlineDelimited"])

\* The match of lines 149-165; the OctetCounting arm is todo!().
framing_config(framing) ==
    CASE framing.method = "Bytes" -> Ok([method |-> "Bytes"])
      [] framing.method = "CharacterDelimited" ->
            Ok([method |-> "CharacterDelimited", delimiter |-> framing.delimiter])
      [] framing.method = "LengthDelimited" -> Ok([method |-> "LengthDelimited"])
      [] framing.method = "NewlineDelimited" -> Ok([method |-> "NewlineDelimited"])
      [] framing.method = "OctetCounting" -> Panic(TodoMessage)

decoder_framing_to_encoding_framer(framing) ==
    LET matched == framing_config(framing)
    IN  IF matched.ok THEN Ok(FramingBuild(matched.value)) ELSE matched

(***************************************************************************)
(* ResourceCodec::into_encoder (mod.rs:76-105).  The tuple of each arm is  *)
(* evaluated left to right: the framer first, then the serializer.         *)
(***************************************************************************)
\* Encoder::<encoding::Framer>::new(framer, serializer) once both are there.
NewEncoder(framer, serializer) ==
    IF ~framer.ok THEN framer
    ELSE IF ~serializer.ok THEN serializer
    ELSE Ok([framer |-> framer.value, serializer |-> serializer.value])

into_encoder_ignores_framer(self) ==
    CASE self.variant = "Encoding" ->
            NewEncoder(Ok(BytesFramer),
                       Expect(SerializerBuild(self.encoding.serializer), ExpectMessage80))
      [] self.variant = "EncodingWithFraming" ->
            NewEncoder(Ok(BytesFramer),
                       Expect(SerializerBuild(self.encoding.serializer), ExpectMessage91))
      [] self.variant = "Decoding" ->
            NewEncoder(decoder_framing_to_encoding_framer(
                           default_stream_framing(self.decoding.deserializer)),
                       deserializer_config_to_serializer(self.decoding.deserializer))
      [] self.variant = "DecodingWithFraming" ->
            NewEncoder(decoder_framing_to_encoding_framer(self.framing),
                       deserializer_config_to_serializer(self.decoding.deserializer))

into_encoder_newline_default(self) ==
    CASE self.variant = "Encoding" ->
            NewEncoder(Ok(BytesFramer),
                       Expect(SerializerBuild(self.encoding.serializer), ExpectMessage80))
      [] self.variant = "EncodingWithFraming" ->
            NewEncoder(Ok(FramingBuild(IF self.encoding.framing.some
                                       THEN self.encoding.framing.value
                                       ELSE [method |-> "Bytes"])),
                       Expect(SerializerBuild(self.encoding.serializer), ExpectMessage91))
      [] self.variant = "Decoding" ->
            NewEncoder(decoder_framing_to_encoding_framer(
                           [method |-> "NewlineDelimited", max_length |-> None]),
                       deserializer_config_to_serializer(self.decoding.deserializer))
      [] self.variant = "DecodingWithFraming" ->
            NewEncoder(decoder_framing_to_encoding_framer(self.framing),
                       deserializer_config_to_serializer(self.decoding.deserializer))

into_encoder(self) ==
    CASE self.variant = "Encoding" ->
            NewEncoder(Ok(BytesFramer),
                       Expect(SerializerBuild(self.encoding.serializer), ExpectMessage80))
      [] self.variant = "EncodingWithFraming" ->
            NewEncoder(Ok(FramingBuild(IF self.encoding.framing.some
                                       THEN self.encoding.framing.value
                                       ELSE [method |-> "Bytes"])),
                       Expect(SerializerBuild(self.encoding.serializer), ExpectMessage91))
      [] self.variant = "Decoding" ->
            NewEncoder(decoder_framing_to_encoding_framer(
                           default_stream_framing(self.decoding.deserializer)),
                       deserializer_config_to_serializer(self.decoding.deserializer))
      [] self.variant = "DecodingWithFraming" ->
            NewEncoder(decoder_framing_to_encoding_framer(self.framing),
                       deserializer_config_to_serializer(self.decoding.deserializer))

(***************************************************************************)
(* ResourceDirection, ResourceDefinition, ExternalResource                 *)
(* (mod.rs:171-272) and the collaborators handed to the spawn calls.       *)
(***************************************************************************)
ResourceDirection == {"Pull", "Push"}
HttpConfig == {"http_a", "http_b"}
\* impl From<HttpConfig> for ResourceDefinition
FromHttpConfig(config) == [variant |-> "Http", config |-> config]
\* mpsc::Receiver<TestEvent>, mpsc::Sender<Event>, &TaskCoordinator<Configuring>
Receivers == {"input_rx_a", "input_rx_b"}
Senders == {"output_tx_a", "output_tx_b"}
TaskCoordinators == {"coordinator_a", "coordinator_b"}

(***************************************************************************)
(* The state machine.                                                      *)
(***************************************************************************)
Init ==
    /\ sources_syslog \in BOOLEAN
    /\ codec \in ResourceCodec(sources_syslog)
    /\ codecState = "owned"
    /\ encoderCalls = 0
    /\ encoder = None
    /\ allowed = None
    /\ resource = None
    /\ resourceState = "none"
    /\ newArgs = None
    /\ spawnArgs = <<>>
    /\ httpCalls = <<>>
    /\ panicked = None

\* A call of into_encoder that takes the codec by value instead of borrowing it.
IntoEncoderConsuming ==
    /\ panicked = None
    /\ codecState = "owned"
    /\ encoderCalls < MaxEncoderCalls
    /\ encoderCalls' = encoderCalls + 1
    /\ LET r == into_encoder(codec)
       IN  IF r.ok
           THEN encoder' = Some(r.value) /\ panicked' = panicked
           ELSE encoder' = encoder /\ panicked' = Some(r.panic)
    /\ codecState' = "consumed"
    /\ UNCHANGED <<sources_syslog, codec, allowed, resource, resourceState,
                   newArgs, spawnArgs, httpCalls>>

\* codec.into_encoder(): &self, so the codec stays with the driver, unchanged.
IntoEncoder ==
    /\ panicked = None
    /\ codecState = "owned"
    /\ encoderCalls < MaxEncoderCalls
    /\ encoderCalls' = encoderCalls + 1
    /\ LET r == into_encoder(codec)
       IN  IF r.ok
           THEN encoder' = Some(r.value) /\ panicked' = panicked
           ELSE encoder' = encoder /\ panicked' = Some(r.panic)
    /\ UNCHANGED <<sources_syslog, codec, codecState, allowed, resource, resourceState,
                   newArgs, spawnArgs, httpCalls>>

\* codec.allowed_event_data_types(): self, so the codec is consumed.
AllowedEventDataTypes ==
    /\ panicked = None
    /\ codecState = "owned"
    /\ allowed' = Some(allowed_event_data_types(codec))
    /\ codecState' = "consumed"
    /\ UNCHANGED <<sources_syslog, codec, encoderCalls, encoder, resource, resourceState,
                   newArgs, spawnArgs, httpCalls, panicked>>

\* ExternalResource::new(direction, definition, codec): the codec moves in.
New(direction, definition) ==
    /\ panicked = None
    /\ codecState = "owned"
    /\ resourceState = "none"
    /\ resource' = Some([direction |-> direction,
                         definition |-> FromHttpConfig(definition),
                         codec |-> codec])
    /\ resourceState' = "live"
    /\ codecState' = "in_resource"
    /\ newArgs' = Some([direction |-> direction, definition |-> definition, codec |-> codec])
    /\ UNCHANGED <<sources_syslog, codec, encoderCalls, encoder, allowed,
                   spawnArgs, httpCalls, panicked>>

\* The call the HttpConfig implementation receives.
HttpCall(fn, self, channel, task_coordinator) ==
    [fn |-> fn, config |-> self.definition.config, direction |-> self.direction,
     codec |-> self.codec, channel |-> channel, task_coordinator |-> task_coordinator]

\* spawn_as_input on a resource that stays usable after the call.
SpawnAsInputBorrowing(input_rx, task_coordinator) ==
    /\ panicked = None
    /\ resourceState = "live"
    /\ Len(httpCalls) < MaxSpawnCalls
    /\ httpCalls' = Append(httpCalls,
                           HttpCall("spawn_as_input", resource.value, input_rx, task_coordinator))
    /\ spawnArgs' = Append(spawnArgs, [op |-> "spawn_as_input", channel |-> input_rx,
                                       task_coordinator |-> task_coordinator])
    /\ UNCHANGED <<sources_syslog, codec, codecState, encoderCalls, encoder, allowed,
                   resource, resourceState, newArgs, panicked>>

\* resource.spawn_as_input(input_rx, task_coordinator): self is moved.
SpawnAsInput(input_rx, task_coordinator) ==
    /\ panicked = None
    /\ resourceState = "live"
    /\ Len(httpCalls) < MaxSpawnCalls
    /\ httpCalls' = Append(httpCalls,
                           HttpCall("spawn_as_input", resource.value, input_rx, task_coordinator))
    /\ spawnArgs' = Append(spawnArgs, [op |-> "spawn_as_input", channel |-> input_rx,
                                       task_coordinator |-> task_coordinator])
    /\ resourceState' = "moved"
    /\ UNCHANGED <<sources_syslog, codec, codecState, encoderCalls, encoder, allowed,
                   resource, newArgs, panicked>>

\* spawn_as_output delegating to the input side of the implementation.
SpawnAsOutputWrongSide(output_tx, task_coordinator) ==
    /\ panicked = None
    /\ resourceState = "live"
    /\ Len(httpCalls) < MaxSpawnCalls
    /\ httpCalls' = Append(httpCalls,
                           HttpCall("spawn_as_input", resource.value, output_tx, task_coordinator))
    /\ spawnArgs' = Append(spawnArgs, [op |-> "spawn_as_output", channel |-> output_tx,
                                       task_coordinator |-> task_coordinator])
    /\ resourceState' = "moved"
    /\ UNCHANGED <<sources_syslog, codec, codecState, encoderCalls, encoder, allowed,
                   resource, newArgs, panicked>>

\* resource.spawn_as_output(output_tx, task_coordinator): self is moved.
SpawnAsOutput(output_tx, task_coordinator) ==
    /\ panicked = None
    /\ resourceState = "live"
    /\ Len(httpCalls) < MaxSpawnCalls
    /\ httpCalls' = Append(httpCalls,
                           HttpCall("spawn_as_output", resource.value, output_tx, task_coordinator))
    /\ spawnArgs' = Append(spawnArgs, [op |-> "spawn_as_output", channel |-> output_tx,
                                       task_coordinator |-> task_coordinator])
    /\ resourceState' = "moved"
    /\ UNCHANGED <<sources_syslog, codec, codecState, encoderCalls, encoder, allowed,
                   resource, newArgs, panicked>>

Next ==
    \/ IntoEncoder
    \/ AllowedEventDataTypes
    \/ \E direction \in ResourceDirection, definition \in HttpConfig : New(direction, definition)
    \/ \E input_rx \in Receivers, task_coordinator \in TaskCoordinators :
            SpawnAsInput(input_rx, task_coordinator)
    \/ \E output_tx \in Senders, task_coordinator \in TaskCoordinators :
            SpawnAsOutput(output_tx, task_coordinator)

Spec == Init /\ [][Next]_vars

(***************************************************************************)
(* Properties.                                                             *)
(***************************************************************************)
\* The framing a decode-only codec decodes with: the explicit one, or the
\* deserializer's default stream framing.
EffectiveFraming(c) ==
    IF c.variant = "DecodingWithFraming"
    THEN c.framing
    ELSE default_stream_framing(c.decoding.deserializer)

\* The pairing of deserializer and serializer formats, as documented.
PairedFormat(format) ==
    CASE format = "Bytes" -> "Text"
      [] format = "Json" -> "Json"
      [] format = "Native" -> "Native"
      [] format = "NativeJson" -> "NativeJson"
      [] format = "Gelf" -> "Gelf"
      [] format = "Syslog" -> "Logfmt"

\* The framer of the same kind as a framing method.
FramerOfMethod(method) ==
    CASE method = "Bytes" -> "BytesEncoder"
      [] method = "CharacterDelimited" -> "CharacterDelimitedEncoder"
      [] method = "LengthDelimited" -> "LengthDelimitedEncoder"
      [] method = "NewlineDelimited" -> "NewlineDelimitedEncoder"

\* C1: into_encoder on a decode-only codec whose framing is not octet-counting
\* returns an encoder whose serializer has the format paired with the
\* deserializer's format, whatever the framing and whether it is explicit.
C1_PairedSerializer ==
    (/\ IsDecodeOnly(codec)
     /\ EffectiveFraming(codec).method # "OctetCounting"
     /\ encoderCalls >= 1)
    => /\ panicked = None
       /\ encoder.some
       /\ encoder.value.serializer =
            [serializer |-> PairedFormat(codec.decoding.deserializer.format)]

C1_Witness ==
    /\ codec.variant = "DecodingWithFraming"
    /\ codec.decoding.deserializer.format = "Syslog"
    /\ codec.framing.method = "CharacterDelimited"
    /\ encoder.some
    /\ encoder.value.serializer.serializer = "Logfmt"

\* C2: allowed_event_data_types returns the input type of the stored serializer
\* config for an encode-only codec, and the output type of the stored
\* deserializer config for a decode-only codec, whatever the framing.
C2_AllowedTypes ==
    allowed.some =>
        allowed.value = IF IsEncodeOnly(codec)
                        THEN input_type(codec.encoding.serializer)
                        ELSE output_type(codec.decoding.deserializer)

C2_Witness ==
    /\ allowed.some
    /\ codec.variant = "DecodingWithFraming"
    /\ codec.framing.method = "OctetCounting"
    /\ allowed.value = {"Log", "Metric", "Trace"}

\* C3: for a decode-only codec the framer of the returned encoder is of the same
\* kind as the decoder framing, and a character-delimited framing keeps its
\* delimiter byte; the other parameters of the framing play no part.
C3_FramerTranslated ==
    (IsDecodeOnly(codec) /\ encoder.some) =>
        LET framing == EffectiveFraming(codec)
            framer == encoder.value.framer
        IN  /\ framing.method # "OctetCounting"
            /\ framer.framer = FramerOfMethod(framing.method)
            /\ IF framing.method = "CharacterDelimited"
               THEN framer = [framer |-> "CharacterDelimitedEncoder",
                              delimiter |-> framing.delimiter]
               ELSE DOMAIN framer = {"framer"}

C3_Witness ==
    /\ codec.variant = "DecodingWithFraming"
    /\ codec.framing.method = "CharacterDelimited"
    /\ codec.framing.delimiter = 45
    /\ codec.framing.max_length.some
    /\ encoder.some
    /\ encoder.value.framer.delimiter = 45

\* C4: into_encoder on a decode-only codec with octet-counting framing aborts,
\* for every deserializer format: no encoder is returned.
C4_OctetCountingAborts ==
    (/\ IsDecodeOnly(codec)
     /\ EffectiveFraming(codec).method = "OctetCounting"
     /\ encoderCalls >= 1)
    => (panicked.some /\ ~encoder.some)

C4_Witness ==
    /\ codec.variant = "DecodingWithFraming"
    /\ codec.framing.method = "OctetCounting"
    /\ codec.decoding.deserializer.format = "Json"
    /\ encoderCalls = 1
    /\ panicked.some

\* C5: an ExternalResource is spawned at most once: one spawn call moves it, no
\* second spawn of either side follows, and the implementation receives at
\* most one call.
C5_SpawnedAtMostOnce ==
    /\ Len(spawnArgs) <= 1
    /\ Len(httpCalls) <= 1
    /\ (Len(spawnArgs) = 1) <=> (resourceState = "moved")

C5_Witness ==
    /\ resourceState = "moved"
    /\ Len(httpCalls) = 1
    /\ httpCalls[1].fn = "spawn_as_input"

\* Whether a panic message names the unsupported framing.
NamesFraming(msg) ==
    \E i \in 1..Len(msg) :
        msg[i] \in {"octet", "counting", "octet-counting", "octet_counting",
                    "OctetCounting", "framing"}

\* C6: when into_encoder aborts because of octet-counting framing, the message
\* it aborts with names the unsupported framing.
C6_AbortNamesFraming ==
    (/\ panicked.some
     /\ IsDecodeOnly(codec)
     /\ EffectiveFraming(codec).method = "OctetCounting")
    => NamesFraming(panicked.value)

\* C7 (as claimed): once into_encoder has been called on the codec, no later
\* operation uses it: no further into_encoder, no allowed_event_data_types, no
\* new, no spawn.
C7_ConsumedByIntoEncoder ==
    [][encoderCalls >= 1 => UNCHANGED <<encoderCalls, allowed, newArgs, httpCalls>>]_vars

\* C7 (amended): into_encoder borrows the codec: the call leaves it unchanged
\* and with the driver, and no operation ever changes the codec.
C7_BorrowedNotMutated ==
    [][/\ codec' = codec
       /\ (encoderCalls' # encoderCalls => (codecState = "owned" /\ codecState' = "owned"))]_vars

C7_Witness ==
    /\ encoderCalls = 2
    /\ resourceState = "moved"
    /\ Len(httpCalls) = 1
    /\ httpCalls[1].codec = codec

\* C8: for an encode-only codec the returned encoder has the byte framer
\* (Encoding, or EncodingWithFraming without a framer) or the explicit framer,
\* and the serializer built from the stored config, of the same format; it is
\* returned whenever that serializer builds.
C8_EncodeOnlyNotInverted ==
    (IsEncodeOnly(codec) /\ encoderCalls >= 1) =>
        LET stored == codec.encoding.serializer
            explicit == codec.variant = "EncodingWithFraming" /\ codec.encoding.framing.some
        IN  /\ encoder.some <=> stored.buildable
            /\ encoder.some =>
                /\ encoder.value.serializer = [serializer |-> stored.format]
                /\ encoder.value.framer.framer =
                     IF explicit THEN FramerOfMethod(codec.encoding.framing.value.method)
                                 ELSE "BytesEncoder"
                /\ IF explicit /\ codec.encoding.framing.value.method = "CharacterDelimited"
                   THEN encoder.value.framer.delimiter = codec.encoding.framing.value.delimiter
                   ELSE DOMAIN encoder.value.framer = {"framer"}

C8_Witness ==
    /\ codec.variant = "EncodingWithFraming"
    /\ codec.encoding.framing = Some([method |-> "CharacterDelimited", delimiter |-> 45])
    /\ codec.encoding.serializer.format = "RawMessage"
    /\ encoder.some
    /\ encoder.value.framer.framer = "CharacterDelimitedEncoder"

\* C9: every spawn call makes exactly one call to the HTTP implementation, of
\* the same side, with the config, direction and codec given to new and the
\* channel endpoint and task coordinator given to the spawn call.
C9_DelegatedUnchanged ==
    /\ Len(httpCalls) = Len(spawnArgs)
    /\ \A i \in 1..Len(httpCalls) :
        /\ newArgs.some
        /\ httpCalls[i] = [fn |-> spawnArgs[i].op,
                           config |-> newArgs.value.definition,
                           direction |-> newArgs.value.direction,
                           codec |-> newArgs.value.codec,
                           channel |-> spawnArgs[i].channel,
                           task_coordinator |-> spawnArgs[i].task_coordinator]

C9_Witness ==
    /\ Len(httpCalls) = 1
    /\ httpCalls[1].fn = "spawn_as_output"
    /\ httpCalls[1].direction = "Pull"
    /\ httpCalls[1].config = "http_b"
    /\ httpCalls[1].channel = "output_tx_b"
    /\ IsDecodeOnly(httpCalls[1].codec)

\* C10: a Decoding codec gets the framer a DecodingWithFraming codec gets for
\* the same deserializer and its default stream framing, and aborts exactly
\* when that default is octet-counting; for a DecodingWithFraming codec the
\* result does not depend on the deserializer's default stream framing.
C10_DefaultFramingUsed ==
    /\ (codec.variant = "Decoding" /\ encoderCalls >= 1) =>
        LET default == default_stream_framing(codec.decoding.deserializer)
            twin == into_encoder(DecodingWithFraming(codec.decoding, default))
        IN  /\ panicked.some <=> default.method = "OctetCounting"
            /\ encoder.some <=> twin.ok
            /\ encoder.some => encoder.value.framer = twin.value.framer
    /\ (codec.variant = "DecodingWithFraming" /\ encoderCalls >= 1) =>
        \A s \in DefaultStreamFramings :
            LET other == into_encoder([codec EXCEPT !.decoding.deserializer.stream_framing = s])
            IN  /\ encoder.some <=> other.ok
                /\ encoder.some => encoder.value.framer = other.value.framer

C10_Witness ==
    /\ codec.variant = "Decoding"
    /\ default_stream_framing(codec.decoding.deserializer).method = "LengthDelimited"
    /\ encoder.some
    /\ encoder.value.framer = [framer |-> "LengthDelimitedEncoder"]

====
